---- MODULE Spec2Model ----
(***************************************************************************)
(* Model of the FIT data message decoder (src/data_message.py) and of the  *)
(* object fields it consumes (src/object_fields.py).                       *)
(*                                                                         *)
(* A datetime is an integer number of seconds, a timedelta(seconds=d) is   *)
(* the integer d.  A Python value that may be None is a sequence of length *)
(* at most one: <<>> is None and <<v>> is the value v.                     *)
(* A dict is the sequence of its [key, fv] entries in insertion order.     *)
(***************************************************************************)
EXTENDS Integers, Sequences, FiniteSets, TLC

VARIABLES context, message, entry, history, query, conversion, files

vars == <<context, message, entry, history, query, conversion, files>>

\* ------------------------------------------------------------------ bounds
MaxAbs == 2
MaxFields == 2
MaxDevFields == 1
MaxRaw == 20
MaxCompressedRaw == 130

\* ------------------------------------------------------- optional values
None == <<>>

Some(v) == <<v>>

Val(x) == x[1]

\* Python truthiness of an optional integer: None and 0 are both false.
Truthy(x) == x # None /\ Val(x) # 0

\* ------------------------------------------------------------ dictionaries
HasKey(d, k) == \E i \in 1..Len(d) : d[i].key = k

IndexOf(d, k) == CHOOSE i \in 1..Len(d) : d[i].key = k

\* dict.get(k): None when the key is absent, else the stored field value.
DictGet(d, k) == IF HasKey(d, k) THEN Some(d[IndexOf(d, k)].fv) ELSE None

\* d[k] = v: an existing key keeps its position, a new key is appended.
DictSet(d, k, v) ==
    IF HasKey(d, k)
    THEN [d EXCEPT ![IndexOf(d, k)] = [key |-> k, fv |-> v]]
    ELSE Append(d, [key |-> k, fv |-> v])

Keys(d) == {d[i].key : i \in 1..Len(d)}

\* --------------------------------------------------------- field descriptors
PlainField(name) == [name |-> name, dependant |-> FALSE, controls |-> <<>>]

DependantFieldDescriptor(name, controls) ==
    [name |-> name, dependant |-> TRUE, controls |-> controls]

\* A FieldValue: descriptor, decoded value, invalid sentinel, and the name
\* under which its display sub-value is stored.  control_values records the
\* list its resolver was called with (None when no resolver was called).
FieldValue(field, value, invalid) ==
    [field |-> field, value |-> value, invalid |-> invalid, display |-> field.name,
     control_values |-> None]

\* ------------------------------------------------------------ object fields
\* (x / scale) - offset as an exact fraction: (x - offset * scale) / scale.
Scaled(x, scale, offset) == [num |-> x - offset * scale, den |-> scale]

\* Equality of two fractions with non-zero denominators.
SameNumber(a, b) == a.num * b.den = b.num * a.den

\* The Measurement Value built by obj_func from the scaled reading and the
\* scaled sentinel.
ObjFunc(value, invalid) == [value |-> value, invalid |-> invalid]

\* ObjectField.convert handing the sentinel to obj_func as it was read.
ObjectFieldConvert_RawInvalid(field, scale, offset, value, invalid) ==
    <<[field |-> field, value |-> Some(value - offset * scale), invalid |-> invalid,
       display |-> field.name, control_values |-> None,
       value_obj |-> ObjFunc(Scaled(value, scale, offset), Scaled(invalid, 1, 0))]>>

\* ObjectField.convert: scale and offset are applied to the value and to
\* the sentinel; the FieldValue keeps the Measurement Value (its number also
\* as value, the numerator over scale) and the sentinel as it was read.
ObjectFieldConvert(field, scale, offset, value, invalid) ==
    <<[field |-> field, value |-> Some(value - offset * scale), invalid |-> invalid,
       display |-> field.name, control_values |-> None,
       value_obj |-> ObjFunc(Scaled(value, scale, offset), Scaled(invalid, scale, offset))]>>

\* ObjectField.reconvert: only the display sub-value is regenerated, under
\* the name of the descriptor that now governs the value.
ObjectFieldReconvert(field, fv) == field.name

SubfieldInvalid == 255

SpeedModulus == 64

DistanceShift == 4096

speed_field == PlainField("speed")

distance_field == PlainField("distance")

\* CompressedSpeedDistanceField.convert: speed = value & 0x3f,
\* distance = value >> 12, both converted with the sentinel 0xff.
CompressedSpeedDistanceConvert(value, invalid) ==
    LET speed == value % SpeedModulus
        distance == value \div DistanceShift
    IN  ObjectFieldConvert(speed_field, 1, 0, speed, SubfieldInvalid)
          \o ObjectFieldConvert(distance_field, 1, 0, distance, SubfieldInvalid)

\* ------------------------------------------------------- dependent fields
\* The resolver of the 'product' field: the manufacturer decides which
\* product descriptor governs the reading; an unknown manufacturer keeps a
\* generic one.
DependantField(field, control_values) ==
    IF field.name = "target_value"
    THEN IF control_values[2] = None THEN PlainField("target_value")
         ELSE PlainField("target_power")
    ELSE
    IF control_values[1] = None THEN PlainField("unknown_product")
    ELSE IF Val(control_values[1]) = 1 THEN PlainField("garmin_product")
    ELSE PlainField("other_product")

\* FieldValue.reconvert: display sub-values re-derived from the descriptor
\* now in place; value and sentinel are kept.
FieldValueReconvert(fv) == [fv EXCEPT !.display = ObjectFieldReconvert(fv.field, fv)]

\* --------------------------------------------------------- record decoding
\* DataMessage.__init__, lines 44-51: the sub-fields of one expanded field.
RECURSIVE ExpandSubfields(_, _, _)
ExpandSubfields(message_fields, subfields, i) ==
    IF i > Len(subfields) THEN message_fields
    ELSE LET subfield_value == subfields[i]
             subfield_formal_name == subfield_value.field.name
             merged ==
                 IF HasKey(message_fields, subfield_formal_name)
                 THEN LET k == IndexOf(message_fields, subfield_formal_name)
                          old == message_fields[k].fv
                      IN  [message_fields EXCEPT ![k].fv.value =
                              Some(Val(old.value) + Val(subfield_value.value))]
                 ELSE DictSet(message_fields, subfield_formal_name, subfield_value)
         IN  ExpandSubfields(merged, subfields, i + 1)

\* DataMessage.__init__, lines 38-53: the provisional name -> value mapping.
RECURSIVE AssembleFields(_, _, _)
AssembleFields(message_fields, data_fields, index) ==
    IF index > Len(data_fields) THEN message_fields
    ELSE LET data_field == data_fields[index]
             next ==
                 IF data_field.expands
                 THEN ExpandSubfields(message_fields, data_field.subfields, 1)
                 ELSE DictSet(message_fields, data_field.name, data_field.field_value)
         IN  AssembleFields(next, data_fields, index + 1)

\* SumSizes counting a name once, however many fields carry it.
RECURSIVE SumSizes_Distinct(_, _)
SumSizes_Distinct(data_fields, index) ==
    IF index > Len(data_fields) THEN 0
    ELSE (IF \E j \in (index + 1)..Len(data_fields) :
                data_fields[j].name = data_fields[index].name
          THEN 0 ELSE data_fields[index].file_size)
           + SumSizes_Distinct(data_fields, index + 1)

\* DataMessage.__init__, line 40: the bytes consumed by the regular fields.
RECURSIVE SumSizes(_, _)
SumSizes(data_fields, index) ==
    IF index > Len(data_fields) THEN 0
    ELSE data_fields[index].file_size + SumSizes(data_fields, index + 1)

\* ControlFieldValue where a missing control counts as 0.
ControlFieldValue_Zero(message_fields, control_field_name) ==
    LET control_field == DictGet(message_fields, control_field_name)
    IN  IF control_field # None THEN Val(control_field).value ELSE Some(0)

\* DataMessage.__control_field_value
ControlFieldValue(message_fields, control_field_name) ==
    LET control_field == DictGet(message_fields, control_field_name)
    IN  IF control_field # None THEN Val(control_field).value ELSE None

\* The control values handed to a resolver, in the descriptor's order.
ControlValues(message_fields, field) ==
    [c \in 1..Len(field.controls) |-> ControlFieldValue(message_fields, field.controls[c])]

\* ConvertFields storing every value under its provisional key.
RECURSIVE ConvertFields_ByKey(_, _, _)
ConvertFields_ByKey(message_fields, fields, i) ==
    IF i > Len(message_fields)
    THEN [message_fields |-> message_fields, _fields |-> fields]
    ELSE LET field_value == message_fields[i].fv
             field == field_value.field
             resolved ==
                 IF field.dependant
                 THEN LET control_values == ControlValues(message_fields, field)
                      IN  FieldValueReconvert(
                              [field_value EXCEPT !.field = DependantField(field, control_values),
                                                  !.control_values = Some(control_values)])
                 ELSE field_value
         IN  ConvertFields_ByKey([message_fields EXCEPT ![i].fv = resolved],
                                 DictSet(fields, message_fields[i].key, resolved), i + 1)

\* ConvertFields resolving against the fields placed before the dependent.
RECURSIVE ConvertFields_Before(_, _, _)
ConvertFields_Before(message_fields, fields, i) ==
    IF i > Len(message_fields)
    THEN [message_fields |-> message_fields, _fields |-> fields]
    ELSE LET field_value == message_fields[i].fv
             field == field_value.field
             resolved ==
                 IF field.dependant
                 THEN LET control_values ==
                              ControlValues(SubSeq(message_fields, 1, i - 1), field)
                      IN  FieldValueReconvert(
                              [field_value EXCEPT !.field = DependantField(field, control_values),
                                                  !.control_values = Some(control_values)])
                 ELSE field_value
         IN  ConvertFields_Before([message_fields EXCEPT ![i].fv = resolved],
                                  DictSet(fields, resolved.field.name, resolved), i + 1)

\* DataMessage.__convert_fields: returns the mapping after resolution and
\* the record's _fields.
RECURSIVE ConvertFields(_, _, _)
ConvertFields(message_fields, fields, i) ==
    IF i > Len(message_fields)
    THEN [message_fields |-> message_fields, _fields |-> fields]
    ELSE LET field_value == message_fields[i].fv
             field == field_value.field
             resolved ==
                 IF field.dependant
                 THEN LET control_values == ControlValues(message_fields, field)
                      IN  FieldValueReconvert(
                              [field_value EXCEPT !.field = DependantField(field, control_values),
                                                  !.control_values = Some(control_values)])
                 ELSE field_value
         IN  ConvertFields([message_fields EXCEPT ![i].fv = resolved],
                           DictSet(fields, resolved.field.name, resolved), i + 1)

\* DataMessage.__convert_dev_fields
RECURSIVE ConvertDevFields(_, _, _)
ConvertDevFields(fields, dev_fields, index) ==
    IF index > Len(dev_fields) THEN fields
    ELSE LET field_value == dev_fields[index].field_value
         IN  ConvertDevFields(DictSet(fields, field_value.field.name, field_value),
                              dev_fields, index + 1)

\* DataMessage.__timestamp16_to_timestamp: the anchor after the call, and
\* the timestamp returned; adding a timedelta to None raises.
Timestamp16ToTimestamp(ctx, timestamp_16) ==
    LET anchored == Truthy(ctx.matched_timestamp_16)
        anchor == IF anchored THEN Val(ctx.matched_timestamp_16) ELSE timestamp_16
        delta == IF anchored
                 THEN IF timestamp_16 >= anchor
                      THEN timestamp_16 - anchor
                      ELSE (anchor - 65535) + timestamp_16
                 ELSE 0
        raised == ctx.last_absolute_timestamp = None
    IN  [matched_timestamp_16 |-> Some(anchor),
         raised |-> raised,
         timestamp |-> IF raised THEN None
                       ELSE Some(Val(ctx.last_absolute_timestamp) + delta)]

\* TrackTimestamp with the anchor left in place.
TrackTimestamp_KeepAnchor(ctx, timestamp_field) ==
    LET timestamp == timestamp_field.value
    IN  [raised |-> FALSE, timestamp |-> timestamp,
         context |-> [ctx EXCEPT !.last_absolute_timestamp = timestamp]]

\* DataMessage.__track_time, lines 84-87: the record has a 'timestamp'.
TrackTimestamp(ctx, timestamp_field) ==
    LET timestamp == timestamp_field.value
    IN  [raised |-> FALSE, timestamp |-> timestamp,
         context |-> [ctx EXCEPT !.last_absolute_timestamp = timestamp,
                                 !.matched_timestamp_16 = None]]

\* TrackTimestamp16 where an empty value is an error.
TrackTimestamp16_Raises(ctx, timestamp_16_field) ==
    IF timestamp_16_field.value # None
    THEN LET r == Timestamp16ToTimestamp(ctx, Val(timestamp_16_field.value))
         IN  [raised |-> r.raised, timestamp |-> r.timestamp,
              context |-> [ctx EXCEPT !.matched_timestamp_16 = r.matched_timestamp_16]]
    ELSE [raised |-> TRUE, timestamp |-> None, context |-> ctx]

\* DataMessage.__track_time, lines 91-97: the record has a 'timestamp_16'.
TrackTimestamp16(ctx, timestamp_16_field) ==
    IF timestamp_16_field.value # None
    THEN LET r == Timestamp16ToTimestamp(ctx, Val(timestamp_16_field.value))
         IN  [raised |-> r.raised, timestamp |-> r.timestamp,
              context |-> [ctx EXCEPT !.matched_timestamp_16 = r.matched_timestamp_16]]
    ELSE [raised |-> FALSE, timestamp |-> ctx.last_timestamp, context |-> ctx]

\* TrackNoTimestamp falling back to the last absolute timestamp.
TrackNoTimestamp_Absolute(ctx) ==
    [raised |-> FALSE, timestamp |-> ctx.last_absolute_timestamp, context |-> ctx]

\* DataMessage.__track_time, line 99: the record has neither.
TrackNoTimestamp(ctx) ==
    [raised |-> FALSE, timestamp |-> ctx.last_timestamp, context |-> ctx]

\* SetLastTimestamp that forgets the assignment.
SetLastTimestamp_Skip(ctx, timestamp) == ctx

\* DataMessage.__track_time, line 100.
SetLastTimestamp(ctx, timestamp) == [ctx EXCEPT !.last_timestamp = timestamp]

\* DataMessage.__track_time: the context after the call, the record's
\* timestamp, and whether the call raised.
TrackTime(ctx, fields) ==
    LET timestamp_16_field == DictGet(fields, "timestamp_16")
        branch ==
            IF HasKey(fields, "timestamp")
            THEN TrackTimestamp(ctx, Val(DictGet(fields, "timestamp")))
            ELSE IF timestamp_16_field # None
                 THEN TrackTimestamp16(ctx, Val(timestamp_16_field))
                 ELSE TrackNoTimestamp(ctx)
    IN  IF branch.raised THEN branch
        ELSE [branch EXCEPT !.context = SetLastTimestamp(branch.context, branch.timestamp)]

NoMessage ==
    [status |-> "none", definition |-> <<>>, message_fields |-> <<>>, _fields |-> <<>>,
     timestamp |-> None, file_size |-> 0]

\* DataMessage.__init__: the record built from a definition and its raw
\* readings, and the context it leaves behind.
DataMessage(definition, ctx) ==
    LET assembled == AssembleFields(<<>>, definition.fields, 1)
        converted == ConvertFields(assembled, <<>>, 1)
        dev_fields == IF definition.has_dev_fields THEN definition.dev_fields ELSE <<>>
        fields == ConvertDevFields(converted._fields, dev_fields, 1)
        file_size == SumSizes(definition.fields, 1) + SumSizes(dev_fields, 1)
        tracked == TrackTime(ctx, fields)
    IN  [context |-> tracked.context,
         assembled |-> assembled,
         message |-> IF tracked.raised
                     THEN [NoMessage EXCEPT !.status = "raised", !.definition = definition]
                     ELSE [status |-> "ok", definition |-> definition,
                           message_fields |-> converted.message_fields,
                           _fields |-> fields,
                           timestamp |-> tracked.timestamp,
                           file_size |-> file_size]]

\* ------------------------------------------------------------ record queries
\* str.lower on the field names of the model: the device field 'Dev_Power'
\* is the one name with upper-case letters.
Lower(name) == IF name = "Dev_Power" THEN "dev_power" ELSE name

\* One turn of the loop of to_dict that puts the raw 16-bit counter under
\* 'timestamp'.
ToDictEntry_Raw(fields, field_name, field_value, timestamp, ignore_none_values, lower_case) ==
    IF field_name = "timestamp_16"
    THEN DictSet(fields, "timestamp", field_value.value)
    ELSE IF ~ignore_none_values \/ field_value.value # None
         THEN DictSet(fields, IF lower_case THEN Lower(field_name) ELSE field_name,
                      field_value.value)
         ELSE fields

\* DataMessage.to_dict, lines 121-124: one turn of the loop.
ToDictEntry(fields, field_name, field_value, timestamp, ignore_none_values, lower_case) ==
    IF field_name = "timestamp_16"
    THEN DictSet(fields, "timestamp", timestamp)
    ELSE IF ~ignore_none_values \/ field_value.value # None
         THEN DictSet(fields, IF lower_case THEN Lower(field_name) ELSE field_name,
                      field_value.value)
         ELSE fields

RECURSIVE ToDictFrom(_, _, _, _, _)
ToDictFrom(fields, msg, ignore_none_values, lower_case, i) ==
    IF i > Len(msg._fields) THEN fields
    ELSE ToDictFrom(ToDictEntry(fields, msg._fields[i].key, msg._fields[i].fv,
                                msg.timestamp, ignore_none_values, lower_case),
                    msg, ignore_none_values, lower_case, i + 1)

\* DataMessage.to_dict: the entries of the returned dict; an entry's fv is
\* the value stored under its key.
ToDict(msg, ignore_none_values, lower_case) ==
    ToDictFrom(<<>>, msg, ignore_none_values, lower_case, 1)

\* GetItem looking the name up in the provisional mapping.
GetItem_Provisional(msg, name) == DictGet(msg.message_fields, name)

\* DataMessage.__getitem__
GetItem(msg, name) == DictGet(msg._fields, name)

\* DataMessage.keys
KeysView(msg) == [i \in 1..Len(msg._fields) |-> msg._fields[i].key]

\* DataMessage.__iter__
Iter(msg) == [i \in 1..Len(msg._fields) |-> msg._fields[i].key]

\* DataMessage.items
Items(msg) == [i \in 1..Len(msg._fields) |-> <<msg._fields[i].key, msg._fields[i].fv>>]

\* DataMessage.values
Values(msg) == [i \in 1..Len(msg._fields) |-> msg._fields[i].fv]

\* DataMessage.get
Get(msg, fieldname, default) ==
    IF \E i \in 1..Len(KeysView(msg)) : KeysView(msg)[i] = fieldname
    THEN GetItem(msg, fieldname)
    ELSE default

\* ------------------------------------------------------------------ inputs
\* A DataField bound to its raw reading: name, bytes consumed, converted
\* value, and the sub-field values it expands into (when it does).
DataField(name, file_size, field_value) ==
    [name |-> name, file_size |-> file_size, expands |-> FALSE,
     field_value |-> field_value, subfields |-> <<>>]

AbsValues == 1..MaxAbs

Ts16Values == {0, 100, 500, 1000, 1050, 50000, 65000, 65535}

CompressedRaws == {491525, 7685}

DistanceValues == {30}

ManufacturerValues == {1, 2}

ProductValues == {7}

TimestampData == {DataField("timestamp", 4, FieldValue(PlainField("timestamp"), Some(t), 0)) :
                     t \in AbsValues}

Timestamp16Data ==
    {DataField("timestamp_16", 2, FieldValue(PlainField("timestamp_16"), v, 65535)) :
        v \in {Some(x) : x \in Ts16Values} \cup {None}}

DistanceData == {DataField("distance", 4, FieldValue(PlainField("distance"), Some(v), 0)) :
                    v \in DistanceValues}

CompressedData ==
    {[name |-> "compressed_speed_distance", file_size |-> 3, expands |-> TRUE,
      field_value |-> FieldValue(PlainField("compressed_speed_distance"), Some(raw), 0),
      subfields |-> CompressedSpeedDistanceConvert(raw, 0)] : raw \in CompressedRaws}

ManufacturerData ==
    {DataField("manufacturer", 2, FieldValue(PlainField("manufacturer"), Some(v), 0)) :
        v \in ManufacturerValues}

ProductData ==
    {DataField("product", 2,
               FieldValue(DependantFieldDescriptor("product", <<"manufacturer">>), Some(v), 0)) :
        v \in ProductValues}

SportData == {DataField("sport", 1, FieldValue(PlainField("sport"), Some(3), 0))}

TargetData ==
    {DataField("target_value", 4,
               FieldValue(DependantFieldDescriptor("target_value", <<"manufacturer", "sport">>),
                          Some(250), 0))}

DevData == {DataField("dev_heart_rate", 1, FieldValue(PlainField("dev_heart_rate"), Some(70), 0)),
            DataField("distance", 1, FieldValue(PlainField("distance"), Some(7), 0))}

TimeData == TimestampData \cup Timestamp16Data

OtherData == DistanceData \cup CompressedData \cup ManufacturerData \cup ProductData

SeqsUpTo(S, n) == UNION {[1..k -> S] : k \in 0..n}

Definition(fields, dev_fields) ==
    [fields |-> fields, has_dev_fields |-> dev_fields # <<>>, dev_fields |-> dev_fields]

Timestamp16Of(values) == {d \in Timestamp16Data : d.field_value.value \in values}

\* Records made of the timestamp fields only, in either definition order.
TimeDefinitions ==
    {Definition(<<f>>, <<>>) : f \in TimeData}
      \cup {Definition(<<a, b>>, <<>>) :
               a \in TimestampData, b \in Timestamp16Of({None, Some(1000)})}
      \cup {Definition(<<b, a>>, <<>>) :
               a \in TimestampData, b \in Timestamp16Of({None, Some(1000)})}

\* A few records without any timestamp field.
PlainDefinitions ==
    {Definition(fs, <<>>) : fs \in SeqsUpTo(DistanceData \cup ProductData, 1)}

\* Records without any timestamp field.
FieldDefinitions == {Definition(fs, <<>>) : fs \in SeqsUpTo(OtherData, MaxFields)}

\* Records with one timestamp field among other fields.
MixedDefinitions ==
    {Definition(<<t>> \o fs, <<>>) :
        t \in {d \in TimestampData : d.field_value.value = Some(1)}
                \cup Timestamp16Of({None, Some(1000)}),
        fs \in SeqsUpTo(DistanceData \cup ProductData, MaxFields - 1) \ {<<>>}}

\* Records around a field that depends on two control fields.
TargetDefinitions ==
    {Definition(fs, <<>>) :
        fs \in SeqsUpTo(TargetData \cup SportData
                          \cup {d \in ManufacturerData : d.field_value.value = Some(1)},
                        MaxFields)}

\* Records with device-specific fields.
DevDefinitions ==
    {Definition(fs, ds) :
        fs \in SeqsUpTo(DistanceData, 1), ds \in SeqsUpTo(DevData, MaxDevFields) \ {<<>>}}

\* Records whose query surface is exercised: a timestamp field alone or
\* next to another field, in either order, with or without a device field.
CadenceData == {DataField("cadence", 1, FieldValue(PlainField("cadence"), None, 255))}

PowerData == {DataField("Dev_Power", 2, FieldValue(PlainField("Dev_Power"), Some(200), 0))}

QueryTimeData ==
    {d \in TimestampData : d.field_value.value = Some(1)}
      \cup Timestamp16Of({None, Some(1000), Some(1050)})

QueryOtherData == DistanceData \cup CadenceData \cup ProductData

QueryDefinitions ==
    {Definition(fs, <<>>) : fs \in SeqsUpTo(QueryTimeData \cup QueryOtherData, 1)}
      \cup {Definition(<<t, o>>, <<>>) : t \in QueryTimeData, o \in QueryOtherData}
      \cup {Definition(<<o, t>>, <<>>) : t \in QueryTimeData, o \in QueryOtherData}
      \cup {Definition(<<f>>, <<d>>) :
               f \in Timestamp16Of({Some(1000)}) \cup CadenceData, d \in PowerData}

QueryNames == {"timestamp", "timestamp_16", "product", "unknown_product", "cadence", "absent"}

DefaultValue == FieldValue(PlainField("default"), None, 0)

\* Raw readings and sentinels handed to a field's convert.
RawReadings == 0..MaxRaw

Sentinels == {0, 2, 255}

CompressedReadings == 0..MaxCompressedRaw \cup CompressedRaws

\* Object fields by scale and offset: the default, DistanceMillimetersField
\* and AltitudeField.
ObjectFields ==
    {[field |-> PlainField("distance"), scale |-> 1, offset |-> 0],
     [field |-> PlainField("distance_mm"), scale |-> 10, offset |-> 0],
     [field |-> PlainField("altitude"), scale |-> 5, offset |-> 500]}

\* Records of the two files decoded side by side.
IsolationDefinitions ==
    {Definition(<<f>>, <<>>) :
        f \in TimestampData \cup Timestamp16Of({None, Some(1000), Some(1050)})}
      \cup {Definition(<<>>, <<>>)}

\* ------------------------------------------------------- definition shape
FieldNames(definition) == {definition.fields[i].name : i \in 1..Len(definition.fields)}

CarriesTimestamp(definition) == "timestamp" \in FieldNames(definition)

Carries16(definition) == "timestamp_16" \in FieldNames(definition)

ReadingOf(definition, name) ==
    LET i == CHOOSE j \in 1..Len(definition.fields) : definition.fields[j].name = name
    IN  definition.fields[i].field_value.value

\* ------------------------------------------------------------ state machine
\* DataMessageDecodeContext.__init__
NewContext ==
    [matched_timestamp_16 |-> None, last_timestamp |-> None, last_absolute_timestamp |-> None]

NoQuery ==
    [op |-> "none", name |-> "", default |-> None, ignore_none_values |-> FALSE,
     lower_case |-> FALSE, result |-> <<>>]

NoConversion ==
    [op |-> "none", raw |-> 0, invalid |-> 0, scale |-> 1, offset |-> 0, result |-> <<>>]

\* Two files decoded side by side, each with a context of its own.
Files == {"a", "b"}

\* contexts: the context instance of each file.  alone: the context the
\* file would have had if its records had been decoded with no other file
\* around.  last: the latest decode (its file, the contexts before it, its
\* outcome, and its outcome in the file decoded alone).
NewFiles ==
    [contexts |-> [f \in Files |-> NewContext],
     alone |-> [f \in Files |-> NewContext],
     last |-> [file |-> "none", before |-> [f \in Files |-> NewContext],
               status |-> "none", timestamp |-> None,
               alone_status |-> "none", alone_timestamp |-> None]]

\* A context whose attributes are shared by all instances.
StoreContext_Shared(contexts, f, ctx) == [g \in DOMAIN contexts |-> ctx]

\* DataMessageDecodeContext.__init__ and DataMessage.__init__, line 34: the
\* attributes are those of the instance handed to the decode.
StoreContext(contexts, f, ctx) == [contexts EXCEPT ![f] = ctx]

NewHistory ==
    [first16 |-> None, absOrdered |-> TRUE, lastAbsField |-> None,
     prevTimestamp |-> None, assembled |-> <<>>]

Init ==
    /\ context = NewContext
    /\ message = NoMessage
    /\ entry = NewContext
    /\ history = NewHistory
    /\ query = NoQuery
    /\ conversion = NoConversion
    /\ files = NewFiles

\* What an observer of the record stream knows after the decode: the first
\* 16-bit value of the current epoch, whether the absolute timestamps seen
\* so far were non-decreasing, and the previous record's timestamp.
NextHistory(definition, r) ==
    LET ok == r.message.status = "ok"
        prev == IF message.status = "ok" THEN message.timestamp ELSE history.prevTimestamp
    IN  IF ~ok THEN [history EXCEPT !.prevTimestamp = prev, !.assembled = r.assembled]
        ELSE IF CarriesTimestamp(definition)
        THEN LET t == ReadingOf(definition, "timestamp")
             IN  [first16 |-> None,
                  absOrdered |-> history.absOrdered
                                   /\ (history.lastAbsField = None
                                         \/ Val(t) >= Val(history.lastAbsField)),
                  lastAbsField |-> t, prevTimestamp |-> prev, assembled |-> r.assembled]
        ELSE IF Carries16(definition) /\ ReadingOf(definition, "timestamp_16") # None
                /\ history.first16 = None
        THEN [history EXCEPT !.first16 = ReadingOf(definition, "timestamp_16"),
                             !.prevTimestamp = prev, !.assembled = r.assembled]
        ELSE [history EXCEPT !.prevTimestamp = prev, !.assembled = r.assembled]

\* One record of the file is decoded with the file's context.
Decode(definition) ==
    LET r == DataMessage(definition, context)
    IN  /\ context' = r.context
        /\ message' = r.message
        /\ entry' = context
        /\ history' = NextHistory(definition, r)
        /\ query' = NoQuery
        /\ UNCHANGED <<conversion, files>>

DecodeTimeRecord == \E definition \in TimeDefinitions : Decode(definition)

DecodePlainRecord == \E definition \in PlainDefinitions : Decode(definition)

DecodeFieldRecord == \E definition \in FieldDefinitions : Decode(definition)

DecodeMixedRecord == \E definition \in MixedDefinitions : Decode(definition)

DecodeDevRecord == \E definition \in DevDefinitions : Decode(definition)

DecodeTargetRecord == \E definition \in TargetDefinitions : Decode(definition)

\* The timestamp protocol: records of timestamp fields, and plain records.
Next ==
    \/ DecodeTimeRecord
    \/ DecodePlainRecord

Spec == Init /\ [][Next]_vars

\* Field assembly and resolution: records of many fields.
NextFields ==
    \/ DecodeFieldRecord
    \/ DecodeMixedRecord
    \/ DecodeDevRecord
    \/ DecodeTargetRecord

SpecFields == Init /\ [][NextFields]_vars

DecodeQueryRecord == \E definition \in QueryDefinitions : Decode(definition)

\* A call on the decoded record: the record and the context stay as they
\* are, the call's arguments and result are kept in query.
Call(q) ==
    /\ message.status = "ok"
    /\ query' = q
    /\ UNCHANGED <<context, message, entry, history, conversion, files>>

CallToDict ==
    \E ignore_none_values \in BOOLEAN, lower_case \in BOOLEAN :
        Call([NoQuery EXCEPT !.op = "to_dict",
                             !.ignore_none_values = ignore_none_values,
                             !.lower_case = lower_case,
                             !.result = ToDict(message, ignore_none_values, lower_case)])

CallGetItem ==
    \E name \in QueryNames :
        Call([NoQuery EXCEPT !.op = "getitem", !.name = name,
                             !.result = GetItem(message, name)])

CallGet ==
    \E name \in QueryNames, default \in {None, Some(DefaultValue)} :
        Call([NoQuery EXCEPT !.op = "get", !.name = name, !.default = default,
                             !.result = Get(message, name, default)])

CallKeys == Call([NoQuery EXCEPT !.op = "keys", !.result = KeysView(message)])

CallIter == Call([NoQuery EXCEPT !.op = "iter", !.result = Iter(message)])

CallItems == Call([NoQuery EXCEPT !.op = "items", !.result = Items(message)])

CallValues == Call([NoQuery EXCEPT !.op = "values", !.result = Values(message)])

\* The query surface of decoded records.
NextQuery ==
    \/ DecodeQueryRecord
    \/ CallToDict
    \/ CallGetItem
    \/ CallGet
    \/ CallKeys
    \/ CallIter
    \/ CallItems
    \/ CallValues

SpecQuery == Init /\ [][NextQuery]_vars

\* The next record of file f is decoded with the context of file f.
DecodeFileRecord(f) ==
    \E definition \in IsolationDefinitions :
        LET r == DataMessage(definition, files.contexts[f])
            a == DataMessage(definition, files.alone[f])
        IN  /\ files' = [contexts |-> StoreContext(files.contexts, f, r.context),
                         alone |-> [files.alone EXCEPT ![f] = a.context],
                         last |-> [file |-> f, before |-> files.contexts,
                                   status |-> r.message.status,
                                   timestamp |-> r.message.timestamp,
                                   alone_status |-> a.message.status,
                                   alone_timestamp |-> a.message.timestamp]]
            /\ UNCHANGED <<context, message, entry, history, query, conversion>>

\* Two files decoded in any interleaving.
NextFiles == \E f \in Files : DecodeFileRecord(f)

SpecFiles == Init /\ [][NextFiles]_vars

\* A raw reading is converted by an object field.
ConvertReading ==
    \E f \in ObjectFields, raw \in RawReadings, invalid \in Sentinels :
        /\ conversion' = [op |-> "object", raw |-> raw, invalid |-> invalid,
                         scale |-> f.scale, offset |-> f.offset,
                         result |-> ObjectFieldConvert(f.field, f.scale, f.offset, raw, invalid)]
        /\ UNCHANGED <<context, message, entry, history, query, files>>

\* A raw reading is converted by the compressed speed/distance field.
ConvertCompressedReading ==
    \E raw \in CompressedReadings, invalid \in Sentinels :
        /\ conversion' = [op |-> "compressed", raw |-> raw, invalid |-> invalid,
                         scale |-> 1, offset |-> 0,
                         result |-> CompressedSpeedDistanceConvert(raw, invalid)]
        /\ UNCHANGED <<context, message, entry, history, query, files>>

\* Field conversion on its own.
NextConvert ==
    \/ ConvertReading
    \/ ConvertCompressedReading

SpecConvert == Init /\ [][NextConvert]_vars

\* ------------------------------------------------------------------ claims
Ok == message.status = "ok"

Decoded == message.status # "none"

HasTimestamp == Decoded /\ CarriesTimestamp(message.definition)

\* The record has a 'timestamp_16' field and no 'timestamp' field.
Has16Only ==
    Decoded /\ ~CarriesTimestamp(message.definition) /\ Carries16(message.definition)

\* ... and the 16-bit field has a value.
Has16Value == Has16Only /\ ReadingOf(message.definition, "timestamp_16") # None

HasNeither ==
    Decoded /\ ~CarriesTimestamp(message.definition) /\ ~Carries16(message.definition)

Value16 == Val(ReadingOf(message.definition, "timestamp_16"))

\* The delta of section 4.4 for an anchor A and a 16-bit value V.
Delta(A, V) == IF V >= A THEN V - A ELSE (A - 65535) + V

\* C1: within an epoch the first 16-bit value becomes the anchor and stays
\* the anchor; every 16-bit record of the epoch resolves to the last
\* absolute timestamp plus its delta against that first value.
C1_StickyAnchor ==
    (Ok /\ Has16Value) =>
        /\ context.matched_timestamp_16 = history.first16
        /\ message.timestamp =
             Some(Val(entry.last_absolute_timestamp) + Delta(Val(history.first16), Value16))

\* C2: with an anchor A set, a record with 16-bit value V resolves to the
\* last absolute timestamp plus Delta(A, V).
C2_DeltaFromAnchor ==
    (Ok /\ Has16Value /\ entry.matched_timestamp_16 # None) =>
        message.timestamp =
            Some(Val(entry.last_absolute_timestamp)
                   + Delta(Val(entry.matched_timestamp_16), Value16))

\* C3: a record with a 'timestamp' field decodes, takes that value as its
\* timestamp, makes it the last absolute timestamp and clears the anchor.
C3_AbsoluteTransition ==
    HasTimestamp =>
        /\ Ok
        /\ message.timestamp = ReadingOf(message.definition, "timestamp")
        /\ context.last_absolute_timestamp = ReadingOf(message.definition, "timestamp")
        /\ context.matched_timestamp_16 = None

C3_Witness ==
    /\ Ok
    /\ HasTimestamp
    /\ Carries16(message.definition)
    /\ entry.matched_timestamp_16 # None
    /\ entry.last_absolute_timestamp # ReadingOf(message.definition, "timestamp")
    /\ context.matched_timestamp_16 = None

\* C4: when the absolute timestamps of the file are non-decreasing, no
\* record resolves to an earlier timestamp than the record before it.
C4_Monotonic ==
    (Ok /\ history.absOrdered /\ history.prevTimestamp # None /\ message.timestamp # None) =>
        Val(message.timestamp) >= Val(history.prevTimestamp)

\* C5: a record with neither timestamp field takes the timestamp of the
\* previous record and leaves the whole context as it was.
C5_CarryForward ==
    HasNeither =>
        /\ Ok
        /\ message.timestamp = entry.last_timestamp
        /\ message.timestamp = history.prevTimestamp
        /\ context = entry

C5_Witness ==
    /\ Ok
    /\ HasNeither
    /\ entry.matched_timestamp_16 # None
    /\ entry.last_timestamp # None
    /\ entry.last_timestamp # entry.last_absolute_timestamp
    /\ message.timestamp = entry.last_timestamp

\* C6: a 'timestamp_16' field with an empty value does not stop the decode;
\* the record takes the last timestamp, anchor and absolute timestamp stay.
C6_Malformed16 ==
    (Has16Only /\ ~Has16Value) =>
        /\ Ok
        /\ message.timestamp = entry.last_timestamp
        /\ context.last_absolute_timestamp = entry.last_absolute_timestamp
        /\ context.matched_timestamp_16 = entry.matched_timestamp_16

C6_Witness ==
    /\ Ok
    /\ Has16Only
    /\ ~Has16Value
    /\ entry.matched_timestamp_16 # None
    /\ entry.last_timestamp # None
    /\ message.timestamp = entry.last_timestamp

\* C7: after a successful decode the context's last timestamp is the
\* record's timestamp, whichever branch assigned it.
C7_LastTimestamp == Ok => context.last_timestamp = message.timestamp

C7_Witness ==
    /\ Ok
    /\ Has16Value
    /\ message.timestamp # entry.last_timestamp
    /\ context.last_timestamp = message.timestamp

\* Positions of the definition whose field is named name and is read
\* directly (not expanded into sub-fields).
DirectPositions(definition, name) ==
    {i \in 1..Len(definition.fields) :
        ~definition.fields[i].expands /\ definition.fields[i].name = name}

\* Positions of the definition whose field expands into a sub-field name.
ExpandedPositions(definition, name) ==
    {i \in 1..Len(definition.fields) :
        /\ definition.fields[i].expands
        /\ \E k \in 1..Len(definition.fields[i].subfields) :
              definition.fields[i].subfields[k].field.name = name}

SubfieldReading(data_field, name) ==
    LET k == CHOOSE j \in 1..Len(data_field.subfields) :
                 data_field.subfields[j].field.name = name
    IN  Val(data_field.subfields[k].value)

Only(S) == CHOOSE x \in S : TRUE

Last(S) == CHOOSE x \in S : \A y \in S : y <= x

DevNames(definition) ==
    {definition.dev_fields[i].name : i \in 1..Len(definition.dev_fields)}

\* C8: a name delivered once directly and once through an expanded
\* sub-field ends up with the sum of both readings, in either order.
C8_Accumulation ==
    LET definition == message.definition
        direct == DirectPositions(definition, "distance")
        expanded == ExpandedPositions(definition, "distance")
    IN  (Ok /\ Cardinality(direct) = 1 /\ Cardinality(expanded) = 1
            /\ "distance" \notin DevNames(definition)) =>
            Val(DictGet(message._fields, "distance")).value =
                Some(Val(definition.fields[Only(direct)].field_value.value)
                       + SubfieldReading(definition.fields[Only(expanded)], "distance"))

\* Entry i of the provisional mapping is the one found under its resolved
\* name, unless a later entry or a device field took the name.
StoredUnderName(i) ==
    LET res == message.message_fields[i].fv
        name == res.field.name
    IN  /\ HasKey(message._fields, name)
        /\ ((/\ \A j \in (i + 1)..Len(message.message_fields) :
                   message.message_fields[j].fv.field.name # name
             /\ name \notin DevNames(message.definition))
              => Val(DictGet(message._fields, name)) = res)

\* C9: resolution gives a dependent value the descriptor its resolver
\* returns and stores it under that descriptor's name, with the value and
\* sentinel of the original conversion; other values are left as they were.
C9_SwapPreservesValue ==
    Ok =>
        /\ Len(message.message_fields) = Len(history.assembled)
        /\ \A i \in 1..Len(history.assembled) :
              LET orig == history.assembled[i].fv
                  res == message.message_fields[i].fv
              IN  /\ res.value = orig.value
                  /\ res.invalid = orig.invalid
                  /\ StoredUnderName(i)
                  /\ IF orig.field.dependant
                     THEN /\ res.control_values # None
                          /\ res.field = DependantField(orig.field, Val(res.control_values))
                     ELSE res = orig

C9_Witness ==
    /\ Ok
    /\ \E i \in 1..Len(history.assembled) :
          LET orig == history.assembled[i].fv
              res == message.message_fields[i].fv
          IN  /\ orig.field.dependant
              /\ res.field.name = "garmin_product"
              /\ orig.field.name = "product"
              /\ res.value = orig.value
              /\ Val(DictGet(message._fields, "garmin_product")) = res
              /\ ~HasKey(message._fields, "product")

\* The list a resolver would get if every control present in the record,
\* wherever it is defined, gave the value of its last reading.
ControlsFromDefinition(definition, field) ==
    [c \in 1..Len(field.controls) |->
        LET positions == DirectPositions(definition, field.controls[c])
        IN  IF positions = {} THEN None
            ELSE definition.fields[Last(positions)].field_value.value]

\* The resolved entries of the record: position in the mapping, and the
\* position of the dependent field in the definition.
Resolved(i) ==
    /\ i \in 1..Len(history.assembled)
    /\ history.assembled[i].fv.field.dependant

\* C10 as stated: a control defined only after its dependent reaches the
\* resolver as the empty value.
C10_ControlAfterIsMissing ==
    Ok =>
        \A i \in 1..Len(history.assembled) :
            Resolved(i) =>
                LET field == history.assembled[i].fv.field
                    at == Last(DirectPositions(message.definition, history.assembled[i].key))
                    passed == Val(message.message_fields[i].fv.control_values)
                IN  \A c \in 1..Len(field.controls) :
                        LET positions == DirectPositions(message.definition, field.controls[c])
                        IN  (positions # {} /\ \A p \in positions : p > at)
                                => passed[c] = None

\* C10 amended: a control present in the record reaches the resolver with
\* its decoded value wherever it is defined; only an absent one is empty.
C10_ControlAnywhere ==
    Ok =>
        \A i \in 1..Len(history.assembled) :
            Resolved(i) =>
                /\ message.message_fields[i].fv.control_values # None
                /\ Val(message.message_fields[i].fv.control_values) =
                       ControlsFromDefinition(message.definition, history.assembled[i].fv.field)

C10_Witness ==
    /\ Ok
    /\ \E i \in 1..Len(history.assembled) :
          /\ Resolved(i)
          /\ LET field == history.assembled[i].fv.field
                 at == Last(DirectPositions(message.definition, history.assembled[i].key))
                 positions == DirectPositions(message.definition, field.controls[1])
             IN  /\ positions # {}
                 /\ \A p \in positions : p > at
                 /\ Val(message.message_fields[i].fv.control_values)[1] # None

\* C11: a control field absent from the record does not stop the decode;
\* the resolver gets one value per declared control, in declared order,
\* empty for an absent control and the decoded value for a present one.
C11_MissingControl ==
    /\ (Decoded /\ ~(Has16Value /\ entry.last_absolute_timestamp = None)) => Ok
    /\ Ok =>
         \A i \in 1..Len(history.assembled) :
             Resolved(i) =>
                 LET field == history.assembled[i].fv.field
                     passed == Val(message.message_fields[i].fv.control_values)
                 IN  /\ message.message_fields[i].fv.control_values # None
                     /\ Len(passed) = Len(field.controls)
                     /\ \A c \in 1..Len(field.controls) :
                           LET positions ==
                                   DirectPositions(message.definition, field.controls[c])
                           IN  IF positions = {}
                               THEN passed[c] = None
                               ELSE passed[c] =
                                      message.definition.fields[Last(positions)].field_value.value

C11_Witness ==
    /\ Ok
    /\ \E i \in 1..Len(history.assembled) :
          /\ Resolved(i)
          /\ history.assembled[i].fv.field.controls = <<"manufacturer", "sport">>
          /\ "manufacturer" \notin FieldNames(message.definition)
          /\ message.message_fields[i].fv.control_values = Some(<<None, Some(3)>>)

\* The entries of a to_dict result stored under a key.
EntriesUnder(result, key) == {i \in 1..Len(result) : result[i].key = key}

\* C12: to_dict of a record with 'timestamp_16' and no 'timestamp' has one
\* 'timestamp' key holding the resolved timestamp, no 'timestamp_16' key,
\* and (nothing being omitted) every other field under its name.
C12_Folding ==
    (query.op = "to_dict" /\ Has16Only) =>
        /\ Cardinality(EntriesUnder(query.result, "timestamp")) = 1
        /\ query.result[Only(EntriesUnder(query.result, "timestamp"))].fv = message.timestamp
        /\ EntriesUnder(query.result, "timestamp_16") = {}
        /\ ~query.ignore_none_values =>
              /\ Len(query.result) = Len(message._fields)
              /\ \A j \in 1..Len(message._fields) :
                    message._fields[j].key # "timestamp_16" =>
                        \E i \in 1..Len(query.result) :
                            /\ query.result[i].key =
                                 IF query.lower_case THEN Lower(message._fields[j].key)
                                 ELSE message._fields[j].key
                            /\ query.result[i].fv = message._fields[j].fv.value

C12_Witness ==
    /\ query.op = "to_dict"
    /\ Has16Value
    /\ message.timestamp # ReadingOf(message.definition, "timestamp_16")
    /\ Len(message._fields) = 2
    /\ Cardinality(EntriesUnder(query.result, "timestamp")) = 1
    /\ query.result[Only(EntriesUnder(query.result, "timestamp"))].fv = message.timestamp

\* C13: with ignore_none_values no entry of the to_dict result is empty.
C13_OmitEmpty ==
    (query.op = "to_dict" /\ query.ignore_none_values) =>
        \A i \in 1..Len(query.result) : query.result[i].fv # None

\* C17: a lookup of an absent name gives the empty result, get gives the
\* field value of a key and the default otherwise, and keys, items, values
\* and iteration range over the record's resolved fields.
C17_QuerySurface ==
    LET fields == message._fields
        at(name) == {i \in 1..Len(fields) : fields[i].key = name}
    IN  /\ query.op = "getitem" =>
              IF at(query.name) = {} THEN query.result = None
              ELSE query.result = Some(fields[Only(at(query.name))].fv)
        /\ query.op = "get" =>
              IF at(query.name) = {} THEN query.result = query.default
              ELSE query.result = Some(fields[Only(at(query.name))].fv)
        /\ query.op \in {"keys", "iter", "items", "values"} =>
              /\ Len(query.result) = Len(fields)
              /\ \A i \in 1..Len(fields) :
                    query.result[i] =
                        CASE query.op \in {"keys", "iter"} -> fields[i].key
                          [] query.op = "items" -> <<fields[i].key, fields[i].fv>>
                          [] query.op = "values" -> fields[i].fv

C17_Witness ==
    /\ query.op = "get"
    /\ query.name = "product"
    /\ query.default # None
    /\ query.result = query.default
    /\ "product" \in FieldNames(message.definition)
    /\ HasKey(message._fields, "unknown_product")

\* C14: the compressed field yields two sub-readings, speed from the low 6
\* bits and distance from all the remaining bits, so that the two together
\* hold every bit of the raw reading; both carry the sentinel 0xFF.
C14_CompressedSplit ==
    conversion.op = "compressed" =>
        /\ Len(conversion.result) = 2
        /\ conversion.result[1].field.name = "speed"
        /\ conversion.result[2].field.name = "distance"
        /\ conversion.result[1].value = Some(conversion.raw % 64)
        /\ conversion.result[2].value = Some(conversion.raw \div 64)
        /\ Val(conversion.result[1].value) + 64 * Val(conversion.result[2].value) = conversion.raw
        /\ conversion.result[1].invalid = 255
        /\ conversion.result[2].invalid = 255

\* C16: convert applies one transform to the reading and to the sentinel,
\* so the two transformed numbers are equal exactly when the reading is the
\* sentinel; the FieldValue keeps the sentinel as it was read.
C16_ScaleOffsetSymmetry ==
    conversion.op = "object" =>
        LET fv == conversion.result[1]
        IN  /\ Len(conversion.result) = 1
            /\ fv.value_obj.value.den = conversion.scale
            /\ fv.value_obj.invalid.den = conversion.scale
            /\ fv.value_obj.value.num - conversion.raw
                 = fv.value_obj.invalid.num - conversion.invalid
            /\ SameNumber(fv.value_obj.value, fv.value_obj.invalid)
                 <=> conversion.raw = conversion.invalid
            /\ fv.invalid = conversion.invalid

C16_Witness ==
    /\ conversion.op = "object"
    /\ conversion.scale = 5
    /\ conversion.offset = 500
    /\ conversion.raw = 2
    /\ conversion.invalid = 2
    /\ SameNumber(conversion.result[1].value_obj.value, conversion.result[1].value_obj.invalid)

\* C15: with one context per file, every record resolves as in the file
\* decoded alone, each context is the one the file decoded alone would
\* have, and a decode never changes the context of the other file.
C15_ContextIsolation ==
    /\ \A f \in Files : files.contexts[f] = files.alone[f]
    /\ files.last.status = files.last.alone_status
    /\ files.last.timestamp = files.last.alone_timestamp
    /\ \A f \in Files : f # files.last.file => files.contexts[f] = files.last.before[f]

C15_Witness ==
    /\ files.last.file = "a"
    /\ files.last.status = "ok"
    /\ files.contexts["a"] # files.last.before["a"]
    /\ files.contexts["a"].matched_timestamp_16 # None
    /\ files.contexts["b"].matched_timestamp_16 # None
    /\ files.contexts["b"] # files.contexts["a"]
    /\ files.contexts["b"] = files.last.before["b"]

\* C18: a record with a 16-bit timestamp value decoded before any absolute
\* timestamp raises, and the context is as it was before the decode.
C18_FailedDecodeKeepsContext ==
    (Decoded /\ Has16Value /\ entry.last_absolute_timestamp = None) =>
        /\ message.status = "raised"
        /\ context = entry

\* The bytes of the first n fields of a list, each field counted once.
RECURSIVE BytesOf(_, _)
BytesOf(data_fields, n) ==
    IF n = 0 THEN 0 ELSE data_fields[n].file_size + BytesOf(data_fields, n - 1)

\* C19: file_size is the sum of the sizes of all regular fields and, when
\* the definition has device fields, of all device fields, each counted
\* once, also when its value was merged or overwritten.
C19_CumulativeSize ==
    Ok =>
        message.file_size =
            BytesOf(message.definition.fields, Len(message.definition.fields))
              + (IF message.definition.has_dev_fields
                 THEN BytesOf(message.definition.dev_fields, Len(message.definition.dev_fields))
                 ELSE 0)

C19_Witness ==
    /\ Ok
    /\ message.definition.has_dev_fields
    /\ "distance" \in FieldNames(message.definition)
    /\ "distance" \in DevNames(message.definition)
    /\ Len(message._fields) < Len(message.definition.fields) + Len(message.definition.dev_fields)
    /\ message.file_size = 5

====
